---- MODULE Spec2Model ----
(***************************************************************************)
(* clut2dtstyle: a run of the script as a state machine.                   *)
(*                                                                         *)
(* One run is: module load (the Lab sidecar is written to a temporary      *)
(* file), then main() calls clut_to_dtstyle(), whose steps are             *)
(* get_dimensions, hald_array, lab_array, the sampling, the CSV, the fit   *)
(* (darktable-chart) and the pruning of the fitted style; then the         *)
(* interpreter exits and runs the atexit handlers.  The external tools     *)
(* (identify, convert, darktable-cli, darktable-chart) are the             *)
(* environment: what they print and which files they leave is chosen with  *)
(* \E from small sets.                                                     *)
(***************************************************************************)
EXTENDS Integers, Sequences, FiniteSets, TLC

VARIABLES
    pc,        \* the step the run is about to execute
    args,      \* argparse's namespace: file, output, number, title
    fs,        \* the file system: path -> content
    handlers,  \* atexit's registry, in registration order
    temps,     \* the temporary files the run has written to disk
    dims,      \* what identify printed, parsed: <<width, height>> (<<>> before)
    size,      \* clut_to_dtstyle's local size (0 before it is assigned)
    hald,      \* the neutral CLUT's Lab array (<<>> before it is assigned)
    array,     \* the input CLUT's Lab array
    interval,  \* the sampling stride
    A,         \* the sampled neutral grid
    B,         \* the sampled CLUT grid
    width,     \* A.shape[0]
    output,    \* the local output (<<>> for None)
    chart,     \* darktable-chart's run: <<>> before, <<[rc, wrote, left]>> after
    parsed,    \* the document et.parse(output) read (<<>> before), in a 1-tuple
    raised,    \* the exception that ended the run: <<>>, or <<[step, exc]>>
    stderr,    \* the lines the process printed to standard error
    exitcode,  \* the process's exit status (-1 while it runs)
    steps      \* the steps that ran to completion, in order

vars == <<pc, args, fs, handlers, temps, dims, size, hald, array, interval,
          A, B, width, output, chart, parsed, raised, stderr, exitcode, steps>>

(***************************************************************************)
(* Bounds of the model.                                                    *)
(***************************************************************************)
\* identify's widths in the dimension check: 1..MaxSide (3375 = 15^3).
MaxSide == 3375
\* identify's heights: within MaxSkew of the width.
MaxSkew == 1
\* identify's widths in the whole pipeline.
MaxPipeSide == 8
\* CLUT levels of the sampling runs: sizes 1^3 .. MaxLevel^3.
MaxLevel == 3
\* CLUT levels of the patch-name runs.
MaxNameLevel == 5
\* --number beyond the largest size of a run.
MaxOver == 2
\* pixel dumps darktable-cli may produce for the input CLUT.
MaxSeed == 2
\* plugins of a fitted style document (all its style nodes together).
MaxPlugins == 5
\* style nodes of a fitted style document.
MaxStyles == 2
\* plugins of a fitted document in the whole pipeline.
MaxPipePlugins == 2
\* the largest num darktable-chart writes.
MaxNum == 3

(***************************************************************************)
(* Program constants.                                                      *)
(***************************************************************************)
DefaultNumber == 64
ExitError == 1
ExitInterrupt == 130
ExitOk == 0
HeaderLines == 4

Prog == "clut2dtstyle"

(***************************************************************************)
(* Paths and file contents.                                                *)
(***************************************************************************)
\* os.path.splitext(name): a path is kept as its stem and its extension.
Path(stem, ext) == [stem |-> stem, ext |-> ext]

\* os.path.splitext(name)[0] + ".dtstyle"
DefaultOutput(name) == Path(name.stem, ".dtstyle")

\* os.path.splitext(os.path.basename(name))[0]
DefaultTitle(name) == name.stem

\* next(tempfile._get_candidate_names()): a fresh name at every call.
CandidateNames == <<"tmp1", "tmp2", "tmp3", "tmp4", "tmp5", "tmp6">>

InputPaths == {Path("clut", ".png"), Path("clut", "")}
OutputArgs == {<<>>, <<Path("out", ".dtstyle")>>, <<Path("clut", ".png")>>}
Titles == {"", "Title"}

TempPaths ==
    {Path(CandidateNames[k], e) : k \in 1..Len(CandidateNames),
                                  e \in {".xmp", ".png", ".pfm", ".csv"}}

\* The file system is a function from the paths that exist to their content.
WriteFile(f, p, c) == [q \in DOMAIN f \cup {p} |-> IF q = p THEN c ELSE f[q]]
DeleteFile(f, p) == [q \in DOMAIN f \ {p} |-> f[q]]
\* os.path.exists(name)
Exists(f, p) == p \in DOMAIN f

ClutImage == [kind |-> "image", of |-> "clut"]
HaldImage(level) == [kind |-> "image", of |-> <<"hald", level>>]
Sidecar == [kind |-> "xmp"]
\* A pixel dump on disk is kept as the number of floats after its header; the
\* floats themselves go to lab_array, which reads them.
PfmFile(data) == [kind |-> "pfm", floats |-> Len(data)]
StyleFile(tree) == [kind |-> "style", tree |-> tree]

(***************************************************************************)
(* make_temp, remove and the atexit handlers.                              *)
(***************************************************************************)
\* make_temp(extension): the name it returns, given the registry so far.
TempName(h, ext) == Path(CandidateNames[Len(h) + 1], ext)

\* A step's effects on the file system and on atexit's registry are a
\* sequence of events, so that an interrupt can cut the step short:
\*   <<"register", name>>          atexit.register(remove, name)
\*   <<"write", name, content>>    the file is written (by the script or a tool)
RegisterEvent(name) == <<"register", name, <<>>>>
WriteEvent(name, content) == <<"write", name, content>>

\* make_temp without its atexit.register call.
MakeTempUnregistered(name) == <<>>

\* make_temp(extension): registers the removal and returns the name; the file
\* itself is written later by the caller.
MakeTempEvents(name) == <<RegisterEvent(name)>>

RECURSIVE ApplyEvents(_, _)
\* The file system, registry and temporaries after a sequence of events.
ApplyEvents(st, evs) ==
    IF evs = <<>> THEN st
    ELSE LET e == Head(evs)
             next == IF e[1] = "register"
                     THEN [st EXCEPT !.handlers = Append(@, e[2])]
                     ELSE [st EXCEPT !.fs = WriteFile(@, e[2], e[3]),
                                     !.temps = IF e[2] \in TempPaths
                                               THEN @ \cup {e[2]} ELSE @]
         IN  ApplyEvents(next, Tail(evs))

Now == [fs |-> fs, handlers |-> handlers, temps |-> temps]

\* remove(name): os.remove if os.path.exists.
Remove(f, name) == IF Exists(f, name) THEN DeleteFile(f, name) ELSE f

RECURSIVE RunHandlers(_, _)
\* atexit runs the registered handlers last-registered first.
RunHandlers(f, h) ==
    IF h = <<>> THEN f
    ELSE RunHandlers(Remove(f, h[Len(h)]), SubSeq(h, 1, Len(h) - 1))

(***************************************************************************)
(* How an exception leaves the process.                                    *)
(***************************************************************************)
ErrorLine(msg) == [prog |-> Prog, msg |-> msg]
Traceback(exc) == <<[prog |-> "", msg |-> "Traceback (most recent call last):"],
                    [prog |-> "", msg |-> exc]>>

\* main's try/except: PrintError -> one line and 1; KeyboardInterrupt -> 130;
\* anything else is not caught: the interpreter prints a traceback and exits 1.
MainExcept(exc, msg) ==
    IF exc = "PrintError"
    THEN [stderr |-> <<ErrorLine(msg)>>, exitcode |-> ExitError]
    ELSE IF exc = "KeyboardInterrupt"
    THEN [stderr |-> <<>>, exitcode |-> ExitInterrupt]
    ELSE [stderr |-> Traceback(exc), exitcode |-> ExitError]

\* An exception raised at module level, outside main's try.
ModuleExcept(exc) ==
    [stderr |-> Traceback(exc),
     exitcode |-> IF exc = "KeyboardInterrupt" THEN ExitInterrupt ELSE ExitError]

(***************************************************************************)
(* get_dimensions.                                                         *)
(***************************************************************************)
RECURSIVE FloorCbrtFrom(_, _)
FloorCbrtFrom(w, n) ==
    IF (n + 1) * (n + 1) * (n + 1) > w THEN n ELSE FloorCbrtFrom(w, n + 1)

\* The integer part of the real cube root of w >= 0.
FloorCbrt(w) == FloorCbrtFrom(w, 0)

\* np.cbrt is the C library's cbrt, which is not correctly rounded: for these
\* n it returns the double just below n for n^3 (glibc 2.36, x86-64:
\* cbrt(3375.0) = 14.999999999999998); for every other perfect cube up to
\* 54^3 it returns n or the double just above it.
CbrtBelow == {15, 27, 30, 37, 54}

\* int(np.cbrt(w)): the truncation of the double np.cbrt returns.
IntCbrt(w) ==
    LET n == FloorCbrt(w)
    IN  IF n * n * n = w /\ n \in CbrtBelow THEN n - 1 ELSE n

\* The condition under which get_dimensions raises "wrong dimensions".
WrongDimensions(w, h) ==
    w # h \/ IntCbrt(w) * IntCbrt(w) * IntCbrt(w) # w

\* identify's output, parsed: <<w, h>>, or <<>> when it does not parse as two
\* integers (int() or the unpacking raises ValueError).
IdentifyOutputs(maxSide) ==
    {<<>>} \cup UNION {{<<w, h>> : h \in {k \in (w - MaxSkew)..(w + MaxSkew) : k >= 1}}
                        : w \in 1..maxSide}

\* get_dimensions(name): "ok", or the PrintError it raises.
GetDimensionsResult(out) ==
    IF out = <<>> THEN "error reading dimesions"
    ELSE IF WrongDimensions(out[1], out[2]) THEN "wrong dimensions"
    ELSE "ok"

(***************************************************************************)
(* Initial state and the first steps.                                      *)
(***************************************************************************)
\* The process starts with its arguments parsed from argv and the input file
\* on disk; the output path may hold a file from before the run.
InitWith(files, outputs, numbers, titles, stale) ==
    /\ pc = "load"
    /\ args \in [file : files, output : outputs,
                 number : numbers, title : titles]
    /\ \E old \in stale :
         LET out == IF args.output = <<>> THEN DefaultOutput(args.file)
                    ELSE args.output[1]
             before == IF old = <<>> THEN <<>> ELSE WriteFile(<<>>, out, old[1])
         IN  fs = WriteFile(before, args.file, ClutImage)
    /\ handlers = <<>>
    /\ temps = {}
    /\ dims = <<>>
    /\ size = 0
    /\ hald = <<>>
    /\ array = <<>>
    /\ interval = 0
    /\ A = <<>>
    /\ B = <<>>
    /\ width = 0
    /\ output = <<>>
    /\ chart = <<>>
    /\ parsed = <<>>
    /\ raised = <<>>
    /\ stderr = <<>>
    /\ exitcode = -1
    /\ steps = <<>>

\* The frame of a step: everything but the file system, the registry, the
\* position and the step log.
Locals == <<dims, size, hald, array, interval, A, B, width, output, chart, parsed>>

\* The step at pc ran its file events evs to the end and goes on at next.
Complete(evs, next) ==
    LET st == ApplyEvents(Now, evs)
    IN  /\ fs' = st.fs
        /\ handlers' = st.handlers
        /\ temps' = st.temps
        /\ steps' = Append(steps, pc)
        /\ raised' = raised
        /\ pc' = next

\* The step at pc raised exc after its file events evs.
Raise(evs, exc, msg) ==
    LET st == ApplyEvents(Now, evs)
        how == IF pc = "load" THEN ModuleExcept(exc) ELSE MainExcept(exc, msg)
    IN  /\ fs' = st.fs
        /\ handlers' = st.handlers
        /\ temps' = st.temps
        /\ stderr' = how.stderr
        /\ exitcode' = how.exitcode
        /\ steps' = steps
        /\ raised' = <<[step |-> pc, exc |-> exc]>>
        /\ pc' = "exiting"

\* Module level: _to_lab_xmp = make_temp(".xmp"), then the sidecar is written.
LoadEvents ==
    LET name == TempName(handlers, ".xmp")
    IN  MakeTempEvents(name) \o <<WriteEvent(name, Sidecar)>>

LoadModule ==
    /\ pc = "load"
    /\ Complete(LoadEvents, "get_dimensions")
    /\ UNCHANGED <<args, Locals, stderr, exitcode>>

\* size = get_dimensions(name)[0]
GetDimensions(maxSide) ==
    /\ pc = "get_dimensions"
    /\ \E out \in IdentifyOutputs(maxSide) :
         LET r == GetDimensionsResult(out)
         IN  /\ dims' = out
             /\ IF r = "ok"
                THEN /\ size' = out[1]
                     /\ Complete(<<>>, "hald_array")
                     /\ UNCHANGED <<stderr, exitcode>>
                ELSE /\ size' = size
                     /\ Raise(<<>>, "PrintError", r)
    /\ UNCHANGED <<args, hald, array, interval, A, B, width, output, chart, parsed>>

(***************************************************************************)
(* lab_array and hald_array.                                               *)
(***************************************************************************)
\* The floats of a pixel dump of an n x n image, after the three header
\* lines: 3 * n * n numbers, told apart by their position and by seed.
PfmData(seed, n) == SubSeq([k \in 1..(3 * n * n) |-> seed + k], 1, 3 * n * n)

\* What darktable-cli leaves at the .pfm path: nothing (<<>>), a dump of the
\* image, or a dump of another size.
Dumps(seeds, n) ==
    {<<>>} \cup {<<PfmData(s, n)>> : s \in seeds} \cup {<<PfmData(0, n + 1)>>}

\* array.reshape((size, size, 3)): rows of pixels of three channels.
Reshape(data, n) ==
    [i \in 1..n |-> [j \in 1..n |->
        LET k == 3 * ((i - 1) * n + (j - 1))
        IN  <<data[k + 1], data[k + 2], data[k + 3]>>]]

\* array[::-1, :, :]
ReverseRows(g) == [i \in 1..Len(g) |-> g[Len(g) + 1 - i]]

\* lab_array's result from the dump: the exception it raises, or the array.
LabArray(dump, n) ==
    IF dump = <<>> THEN [exc |-> "FileNotFoundError", array |-> <<>>]
    ELSE IF Len(dump[1]) # 3 * n * n THEN [exc |-> "ValueError", array |-> <<>>]
    ELSE [exc |-> "", array |-> ReverseRows(Reshape(dump[1], n))]

\* lab_array's file events: pfm = make_temp(".pfm"), then darktable-cli.
LabArrayEvents(h, dump) ==
    LET pfm == TempName(h, ".pfm")
    IN  MakeTempEvents(pfm)
        \o (IF dump = <<>> THEN <<>> ELSE <<WriteEvent(pfm, PfmFile(dump[1]))>>)

\* hald_array's file events: png = make_temp(".png"), convert, lab_array.
HaldArrayEvents(h, n, made, dump) ==
    LET png == TempName(h, ".png")
        evs == MakeTempEvents(png)
               \o (IF made THEN <<WriteEvent(png, HaldImage(IntCbrt(n)))>> ELSE <<>>)
    IN  evs \o LabArrayEvents(ApplyEvents(Now, evs).handlers, dump)

\* What convert and darktable-cli do in hald_array: without the .png there
\* is no dump.
HaldOutcomes(n) ==
    {[made |-> TRUE, dump |-> d] : d \in Dumps({0}, n)}
        \cup {[made |-> FALSE, dump |-> <<>>]}

\* hald = hald_array(size)
HaldArray ==
    /\ pc = "hald_array"
    /\ \E o \in HaldOutcomes(size) :
         LET r == LabArray(o.dump, size)
             evs == HaldArrayEvents(handlers, size, o.made, o.dump)
         IN  IF r.exc = ""
             THEN /\ hald' = r.array
                  /\ Complete(evs, "lab_array")
                  /\ UNCHANGED <<stderr, exitcode>>
             ELSE /\ hald' = hald
                  /\ Raise(evs, r.exc, "")
    /\ UNCHANGED <<args, dims, size, array, interval, A, B, width, output, chart, parsed>>

\* array = lab_array(name, size)
LabArrayStep(seeds) ==
    /\ pc = "lab_array"
    /\ \E d \in Dumps(seeds, size) :
         LET r == LabArray(d, size)
             evs == LabArrayEvents(handlers, d)
         IN  IF r.exc = ""
             THEN /\ array' = r.array
                  /\ Complete(evs, "sample")
                  /\ UNCHANGED <<stderr, exitcode>>
             ELSE /\ array' = array
                  /\ Raise(evs, r.exc, "")
    /\ UNCHANGED <<args, dims, size, hald, interval, A, B, width, output, chart, parsed>>

(***************************************************************************)
(* The sampling.                                                           *)
(***************************************************************************)
\* int(size / number) for size >= 0 and number # 0: true division, then
\* truncation towards zero.
Interval(n, number) ==
    IF number > 0 THEN n \div number ELSE 0 - (n \div (0 - number))

\* seq[::k] for k >= 1: the elements at 0, k, 2k, ...
Strided(seq, k) ==
    [i \in 1..((Len(seq) + k - 1) \div k) |-> seq[(i - 1) * k + 1]]

\* g[::k, ::k]
Strided2(g, k) == [i \in DOMAIN Strided(g, k) |-> Strided(Strided(g, k)[i], k)]

\* The grid the code samples from g with the stride it computed.
Sampled(g, k) == IF k > 1 THEN Strided2(g, k) ELSE g

Sample ==
    /\ pc = "sample"
    /\ IF args.number = 0
       THEN /\ Raise(<<>>, "ZeroDivisionError", "")
            /\ UNCHANGED <<interval, A, B, width>>
       ELSE /\ interval' = Interval(size, args.number)
            /\ A' = Sampled(hald, interval')
            /\ B' = Sampled(array, interval')
            /\ width' = Len(A')
            /\ Complete(<<>>, "csv")
            /\ UNCHANGED <<stderr, exitcode>>
    /\ UNCHANGED <<args, dims, size, hald, array, output, chart, parsed>>

(***************************************************************************)
(* The patch CSV.                                                          *)
(***************************************************************************)
DigitChars == <<"0", "1", "2", "3", "4", "5", "6", "7", "8", "9">>

RECURSIVE Decimal(_)
\* str(n) for n >= 0, as its characters.
Decimal(n) ==
    IF n < 10 THEN <<DigitChars[n + 1]>>
    ELSE Append(Decimal(n \div 10), DigitChars[(n % 10) + 1])

\* "{:02d}".format(n): zero-padded to at least two characters.
Format02d(n) == IF n < 10 THEN <<"0">> \o Decimal(n) ELSE Decimal(n)

\* "A{:02d}B{:02d}".format(i, j)
PatchName(i, j) == <<"A">> \o Format02d(i) \o <<"B">> \o Format02d(j)

\* One data line: the name, then *A[i][j], then *B[i][j] (i, j from 0).
PatchLine(a, b, i, j) ==
    [patch |-> PatchName(i, j),
     fields |-> a[i + 1][j + 1] \o b[i + 1][j + 1]]

\* The four header lines.
CsvHeader(title, name) ==
    << [key |-> "name", value |-> <<title>>],
       [key |-> "description", value |-> <<name>>],
       [key |-> "num_gray", value |-> <<0>>],
       [key |-> "patch",
        value |-> <<"L_source", "a_source", "b_source",
                    "L_reference", "a_reference", "b_reference">>] >>

\* The data lines with the loops exchanged: for j ...: for i ...
CsvDataColumnMajor(a, b, w) ==
    [k \in 1..(w * w) |-> PatchLine(a, b, (k - 1) % w, (k - 1) \div w)]

\* The data lines: for i in range(width): for j in range(width).
CsvData(a, b, w) ==
    [k \in 1..(w * w) |-> PatchLine(a, b, (k - 1) \div w, (k - 1) % w)]

\* title = title or the stem of the input's base name.
Title == IF args.title = "" THEN DefaultTitle(args.file) ELSE args.title

CsvEvents ==
    LET csv == TempName(handlers, ".csv")
    IN  MakeTempEvents(csv)
        \o <<WriteEvent(csv, [kind |-> "csv",
                              header |-> CsvHeader(Title, args.file),
                              data |-> CsvData(A, B, width)])>>

WriteCsv ==
    /\ pc = "csv"
    /\ Complete(CsvEvents, "fit")
    /\ UNCHANGED <<args, Locals, stderr, exitcode>>

(***************************************************************************)
(* The fit (darktable-chart) and the pruning of the style it wrote.        *)
(***************************************************************************)
Allowed == {"colorchecker", "tonecurve"}

\* A <plugin> node: its <operation> and <num> children, each present or not
\* (find() returns None for a missing child).
Plugin(op, num) == [operation |-> op, num |-> num]
NoOperation == "None"
NoNum == <<>>
Num(n) == <<n>>

PluginsOf(ops, nums) == {Plugin(o, n) : o \in ops, n \in nums}

RECURSIVE SeqsUpTo(_, _)
\* The sequences over S of length at most n.
SeqsUpTo(S, n) ==
    IF n = 0 THEN {<<>>}
    ELSE LET shorter == SeqsUpTo(S, n - 1)
         IN  shorter \cup {Append(q, x) : q \in {t \in shorter : Len(t) = n - 1},
                                          x \in S}

\* The cut points of a sequence of at most n plugins into k style nodes.
Cuts(k, n) ==
    {c \in [1..(k - 1) -> 0..n] : \A i \in 1..(k - 2) : c[i] <= c[i + 1]}

\* The sequence q cut into k consecutive style nodes at the points c.
Splits(q, c, k) ==
    [s \in 1..k |-> SubSeq(q, (IF s = 1 THEN 0 ELSE c[s - 1]) + 1,
                              IF s = k THEN Len(q) ELSE c[s])]

\* The documents of exactly k <style> nodes.
DocumentsOf(kinds, maxPlugins, k) ==
    {Splits(p[1], p[2], k)
        : p \in {r \in SeqsUpTo(kinds, maxPlugins) \X Cuts(k, maxPlugins)
                    : \A i \in 1..(k - 1) : r[2][i] <= Len(r[1])}}

RECURSIVE Documents(_, _, _)
\* Style documents: up to maxStyles <style> nodes under the root holding up
\* to maxPlugins <plugin> nodes between them.
Documents(kinds, maxPlugins, maxStyles) ==
    IF maxStyles = 0 THEN {<<>>}
    ELSE Documents(kinds, maxPlugins, maxStyles - 1)
            \cup DocumentsOf(kinds, maxPlugins, maxStyles)

RECURSIVE PruneLoopCountingAll(_, _, _, _)
\* The loop with num incremented for every plugin, removed or kept.
PruneLoopCountingAll(found, k, live, num) ==
    IF k > Len(found) THEN [exc |-> "", children |-> live]
    ELSE LET plugin == found[k]
         IN  IF plugin.node.operation = NoOperation
             THEN [exc |-> "AttributeError", children |-> live]
             ELSE IF plugin.node.operation \notin Allowed
             THEN PruneLoopCountingAll(found, k + 1,
                            SelectSeq(live, LAMBDA c : c.id # plugin.id), num + 1)
             ELSE IF plugin.node.num = NoNum
             THEN [exc |-> "AttributeError", children |-> live]
             ELSE PruneLoopCountingAll(found, k + 1,
                            [i \in DOMAIN live |->
                               IF live[i].id = plugin.id
                               THEN [live[i] EXCEPT !.node.num = Num(num)]
                               ELSE live[i]],
                            num + 1)

\* One pass of "for plugin in style.findall('plugin')" over the snapshot
\* found, from position k on: live is the style's child list (each child
\* with the position it had, its identity), num the counter.
RECURSIVE PruneLoop(_, _, _, _)
PruneLoop(found, k, live, num) ==
    IF k > Len(found) THEN [exc |-> "", children |-> live]
    ELSE LET plugin == found[k]
         IN  IF plugin.node.operation = NoOperation
             THEN [exc |-> "AttributeError", children |-> live]
             ELSE IF plugin.node.operation \notin Allowed
             THEN PruneLoop(found, k + 1,
                            SelectSeq(live, LAMBDA c : c.id # plugin.id), num)
             ELSE IF plugin.node.num = NoNum
             THEN [exc |-> "AttributeError", children |-> live]
             ELSE PruneLoop(found, k + 1,
                            [i \in DOMAIN live |->
                               IF live[i].id = plugin.id
                               THEN [live[i] EXCEPT !.node.num = Num(num)]
                               ELSE live[i]],
                            num + 1)

RECURSIVE LiveLoop(_, _, _)
\* "for plugin in style": the iteration walks the child list it removes from,
\* so the child after a removed one is skipped.
LiveLoop(children, k, num) ==
    IF k > Len(children) THEN [exc |-> "", style |-> children]
    ELSE IF children[k].operation = NoOperation
    THEN [exc |-> "AttributeError", style |-> children]
    ELSE IF children[k].operation \notin Allowed
    THEN LiveLoop(SubSeq(children, 1, k - 1) \o SubSeq(children, k + 1, Len(children)),
                  k + 1, num)
    ELSE IF children[k].num = NoNum
    THEN [exc |-> "AttributeError", style |-> children]
    ELSE LiveLoop([children EXCEPT ![k].num = Num(num)], k + 1, num + 1)

PruneStyleLive(style) == LiveLoop(style, 1, 0)

\* The loop body for one <style>: findall returns a list of its own, so the
\* removals do not disturb the iteration.
PruneStyle(style) ==
    LET live == [i \in DOMAIN style |-> [id |-> i, node |-> style[i]]]
        r == PruneLoop(live, 1, live, 0)
    IN  [exc |-> r.exc,
         style |-> [i \in DOMAIN r.children |-> r.children[i].node]]

RECURSIVE PruneFrom(_, _)
\* for style in tree.findall("style"), from style k on.
PruneFrom(tree, k) ==
    IF k > Len(tree) THEN [exc |-> "", tree |-> tree]
    ELSE LET r == PruneStyle(tree[k])
         IN  IF r.exc # "" THEN [exc |-> r.exc, tree |-> tree]
             ELSE PruneFrom([tree EXCEPT ![k] = r.style], k + 1)

PruneTree(tree) == PruneFrom(tree, 1)

\* The local output after "if not output".
OutputPath ==
    IF args.output = <<>> THEN DefaultOutput(args.file) ELSE args.output[1]

\* darktable-chart's run: its exit status and the document it wrote, if any.
ChartOutcomes(docs) ==
    {[rc |-> rc, wrote |-> w] : rc \in {0, 1},
                                w \in {<<>>} \cup {<<d>> : d \in docs}}

FitEvents(o) ==
    IF o.wrote = <<>> THEN <<>>
    ELSE <<WriteEvent(OutputPath, StyleFile(o.wrote[1]))>>

\* subprocess.run(["darktable-chart", ...]): the exit status is not looked at.
Fit(docs) ==
    /\ pc = "fit"
    /\ \E o \in ChartOutcomes(docs) :
         /\ output' = <<OutputPath>>
         /\ Complete(FitEvents(o), "prune")
         /\ chart' = <<[rc |-> o.rc, wrote |-> o.wrote # <<>>,
                        left |-> Exists(fs', OutputPath)]>>
    /\ UNCHANGED <<args, dims, size, hald, array, interval, A, B, width,
                   parsed, stderr, exitcode>>

\* The content of the file at a path, in a 1-tuple (<<>> if there is none).
ReadFile(f, p) == IF Exists(f, p) THEN <<f[p]>> ELSE <<>>

\* et.parse(output), the loop, tree.write(output): the exception raised, or
\* the tree written.
PruneResult(content) ==
    IF content = <<>> THEN [exc |-> "FileNotFoundError", tree |-> <<>>]
    ELSE IF content[1].kind # "style" THEN [exc |-> "ParseError", tree |-> <<>>]
    ELSE PruneTree(content[1].tree)

PruneEvents(r) ==
    IF r.exc = "" THEN <<WriteEvent(output[1], StyleFile(r.tree))>> ELSE <<>>

Prune ==
    /\ pc = "prune"
    /\ LET r == PruneResult(ReadFile(fs, output[1]))
       IN  /\ parsed' = IF r.exc \in {"FileNotFoundError", "ParseError"}
                        THEN parsed ELSE <<fs[output[1]].tree>>
           /\ IF r.exc = ""
              THEN /\ Complete(PruneEvents(r), "exiting")
                   /\ exitcode' = ExitOk
                   /\ stderr' = stderr
              ELSE Raise(<<>>, r.exc, "")
    /\ UNCHANGED <<args, dims, size, hald, array, interval, A, B, width, output, chart>>

(***************************************************************************)
(* A user interrupt.                                                       *)
(***************************************************************************)
\* The file events the step at pc may be running.
StepEvents(seeds, docs) ==
    CASE pc = "load" -> {LoadEvents}
      [] pc = "hald_array" ->
            {HaldArrayEvents(handlers, size, o.made, o.dump) : o \in HaldOutcomes(size)}
      [] pc = "lab_array" ->
            {LabArrayEvents(handlers, d) : d \in Dumps(seeds, size)}
      [] pc = "csv" -> {CsvEvents}
      [] pc = "fit" -> {FitEvents(o) : o \in ChartOutcomes(docs)}
      [] pc = "prune" -> {PruneEvents(PruneResult(ReadFile(fs, output[1])))}
      [] OTHER -> {<<>>}

\* SIGINT arrives while the step at pc is running: KeyboardInterrupt is raised
\* after some prefix of the step's file events.
Interrupt(seeds, docs) ==
    /\ pc \notin {"exiting", "exited"}
    /\ \E evs \in StepEvents(seeds, docs) :
         \E k \in 0..Len(evs) :
            Raise(SubSeq(evs, 1, k), "KeyboardInterrupt", "")
    /\ UNCHANGED <<args, Locals>>

\* The interpreter exits: atexit runs remove() for every registered name.
Exit ==
    /\ pc = "exiting"
    /\ fs' = RunHandlers(fs, handlers)
    /\ pc' = "exited"
    /\ UNCHANGED <<args, handlers, temps, Locals, raised, stderr, exitcode, steps>>

(***************************************************************************)
(* The dimension check alone, over every width identify may print.         *)
(***************************************************************************)
InitDims == InitWith(InputPaths, {<<>>}, {DefaultNumber}, {""}, {<<>>})

NextDims == LoadModule \/ GetDimensions(MaxSide) \/ Exit

SpecDims == InitDims /\ [][NextDims]_vars

(***************************************************************************)
(* The run up to the patch CSV, over sizes, --number values and dumps.     *)
(***************************************************************************)
Cube(l) == l * l * l

\* The --number values of a run: zero, up to beyond the largest size.
Numbers(maxLevel) == 0..(Cube(maxLevel) + MaxOver)

InitSample == InitWith({Path("clut", ".png")}, {<<>>}, Numbers(MaxLevel), Titles, {<<>>})

NextSample ==
    \/ LoadModule
    \/ GetDimensions(Cube(MaxLevel))
    \/ HaldArray
    \/ LabArrayStep(1..MaxSeed)
    \/ Sample
    \/ WriteCsv
    \/ Exit

SpecSample == InitSample /\ [][NextSample]_vars

(***************************************************************************)
(* The whole run.                                                          *)
(***************************************************************************)
\* A style document left at the output path by an earlier run.
StaleTree == <<<<Plugin("colorchecker", Num(0)), Plugin("tonecurve", Num(1))>>>>

\* What darktable-chart may write in the whole run: plugins with or without
\* their operation and num.
PipeKinds ==
    PluginsOf({"colorchecker", "colorin", NoOperation}, {Num(MaxNum), NoNum})

PipeDocs == Documents(PipeKinds, MaxPipePlugins, 1)

PipeNumbers == {-1, 0, 3, DefaultNumber}

Init == InitWith(InputPaths, OutputArgs, PipeNumbers, {""},
                 {<<>>, <<StyleFile(StaleTree)>>})

Next ==
    \/ LoadModule
    \/ GetDimensions(MaxPipeSide)
    \/ HaldArray
    \/ LabArrayStep({1})
    \/ Sample
    \/ WriteCsv
    \/ Fit(PipeDocs)
    \/ Prune
    \/ Interrupt({1}, PipeDocs)
    \/ Exit

Spec == Init /\ [][Next]_vars

(***************************************************************************)
(* The run of a level-1 CLUT, over the documents darktable-chart writes.   *)
(***************************************************************************)
\* Well-formed plugins: an operation and a num.
StyleKinds == PluginsOf({"colorchecker", "tonecurve", "colorin"}, {Num(MaxNum)})

StyleDocs == Documents(StyleKinds, MaxPlugins, MaxStyles)

InitPrune == InitWith({Path("clut", ".png")}, {<<>>}, {DefaultNumber}, {""}, {<<>>})

NextPrune ==
    \/ LoadModule
    \/ GetDimensions(1)
    \/ HaldArray
    \/ LabArrayStep({1})
    \/ Sample
    \/ WriteCsv
    \/ Fit(StyleDocs)
    \/ Prune
    \/ Exit

SpecPrune == InitPrune /\ [][NextPrune]_vars

(***************************************************************************)
(* The run up to the patch CSV for the CLUT levels whose sample grid can   *)
(* exceed a hundred rows.                                                  *)
(***************************************************************************)
NameNumbers == {1, DefaultNumber, Cube(MaxNameLevel)}

InitNames == InitWith({Path("clut", ".png")}, {<<>>}, NameNumbers, {""}, {<<>>})

NextNames ==
    \/ LoadModule
    \/ GetDimensions(Cube(MaxNameLevel))
    \/ HaldArray
    \/ LabArrayStep({1})
    \/ Sample
    \/ WriteCsv
    \/ Exit

SpecNames == InitNames /\ [][NextNames]_vars

(***************************************************************************)
(* Properties.                                                             *)
(***************************************************************************)
Range(q) == {q[i] : i \in DOMAIN q}

\* The step ran to completion.
Ran(step) == step \in Range(steps)

\* The step raised an exception (other than a user interrupt).
Failed(step) ==
    raised # <<>> /\ raised[1].step = step /\ raised[1].exc # "KeyboardInterrupt"

Interrupted == raised # <<>> /\ raised[1].exc = "KeyboardInterrupt"

Ended == pc \in {"exiting", "exited"}

IsPerfectCube(w) == \E n \in 1..(FloorCbrt(w) + 1) : n * n * n = w

\* C1: get_dimensions accepts <<width, height>> if and only if width = height
\* and width = n^3 for some n >= 1; it then returns the pair, and otherwise
\* raises the invalid-CLUT PrintError.
C1_AcceptsExactlyCubes ==
    (dims # <<>> /\ pc # "get_dimensions") =>
        IF dims[1] = dims[2] /\ IsPerfectCube(dims[1])
        THEN Ran("get_dimensions") /\ size = dims[1] /\ raised = <<>>
        ELSE /\ Failed("get_dimensions")
             /\ raised[1].exc = "PrintError"
             /\ stderr = <<ErrorLine("wrong dimensions")>>

\* floor(a / b) and ceil(a / b) of the rationals, for a >= 0 and b # 0.
FloorDiv(a, b) == IF b > 0 THEN a \div b ELSE 0 - ((a + (0 - b) - 1) \div (0 - b))
CeilDiv(a, b) == IF b > 0 THEN (a + b - 1) \div b ELSE 0 - (a \div (0 - b))

IsSquareGrid(g, n) == Len(g) = n /\ \A i \in DOMAIN g : Len(g[i]) = n

\* C2: for every size and every integer --number, with stride =
\* floor(size / number): if number >= size, A and B are the original grids and
\* no error is raised; if number < size, A and B have ceil(size / stride) rows
\* and columns and cell (i, j) of each is cell (i * stride, j * stride) of the
\* neutral grid and of the CLUT grid.
C2_StrideConsistent ==
    (Ran("sample") \/ Failed("sample")) =>
        /\ Ran("sample")
        /\ IF args.number >= size
           THEN A = hald /\ B = array
           ELSE LET stride == FloorDiv(size, args.number)
                    rows == CeilDiv(size, stride)
                IN  /\ IsSquareGrid(A, rows)
                    /\ IsSquareGrid(B, rows)
                    /\ \A i, j \in 0..(rows - 1) :
                         /\ A[i + 1][j + 1] = hald[i * stride + 1][j * stride + 1]
                         /\ B[i + 1][j + 1] = array[i * stride + 1][j * stride + 1]

\* The patch CSV the run wrote, in a set (empty before it is written).
Csvs == {fs[p] : p \in {q \in temps \cap DOMAIN fs : fs[q].kind = "csv"}}

\* C3: the patch CSV of a W x W sample grid pair is the four header lines
\* (name, description, num_gray;0, column header) in that order, then W * W
\* data lines in row-major order: the line of (row, col) is named
\* A{row:02d}B{col:02d} and carries A[row][col] then B[row][col].
C3_CsvLayout ==
    \A f \in Csvs :
        /\ Len(f.header) = HeaderLines
        /\ f.header[1] = [key |-> "name", value |-> <<Title>>]
        /\ f.header[2] = [key |-> "description", value |-> <<args.file>>]
        /\ f.header[3] = [key |-> "num_gray", value |-> <<0>>]
        /\ f.header[4].key = "patch"
        /\ f.header[4].value = <<"L_source", "a_source", "b_source",
                                 "L_reference", "a_reference", "b_reference">>
        /\ Len(f.data) = width * width
        /\ \A row, col \in 0..(width - 1) :
             LET line == f.data[row * width + col + 1]
                 a == A[row + 1][col + 1]
                 b == B[row + 1][col + 1]
             IN  /\ line.patch = <<"A">> \o Format02d(row) \o <<"B">> \o Format02d(col)
                 /\ line.fields = <<a[1], a[2], a[3], b[1], b[2], b[3]>>

\* A CSV of a sampled (strided) grid pair whose two grids differ.
C3_Witness ==
    \E f \in Csvs : interval > 1 /\ width > 2 /\ A # B /\ args.title # ""

\* C9: every row and column index written into a patch name lies in 0..99,
\* so every patch name is 'A', two digits, 'B', two digits.
C9_IndicesBelowHundred ==
    \A f \in Csvs :
        /\ width <= 100
        /\ \A k \in DOMAIN f.data : Len(f.data[k].patch) = 6

\* The style document at the output path.
Written == fs[output[1]].tree

Kept(style) == SelectSeq(style, LAMBDA p : p.operation \in {"colorchecker", "tonecurve"})

Renumbered(q) == [i \in 1..Len(q) |-> [operation |-> q[i].operation, num |-> <<i - 1>>]]

OperationsOf(style) == [i \in 1..Len(style) |-> style[i].operation]

\* C4: after the pruning, every style node holds exactly its colorchecker and
\* tonecurve plugins, in their original relative order, with num 0, 1, ...,
\* k-1 in that order.
C4_PrunedAndRenumbered ==
    Ran("prune") =>
        /\ Len(Written) = Len(parsed[1])
        /\ \A s \in 1..Len(Written) :
             Written[s] = Renumbered(Kept(parsed[1][s]))

\* [colorchecker, foo, tonecurve, bar] became [colorchecker(0), tonecurve(1)].
C4_Witness ==
    /\ Ran("prune")
    /\ \E s \in 1..Len(parsed[1]) :
         /\ OperationsOf(parsed[1][s]) =
              <<"colorchecker", "colorin", "tonecurve", "colorin">>
         /\ parsed[1][s][1].num # <<0>>
         /\ Written[s] = <<Plugin("colorchecker", <<0>>), Plugin("tonecurve", <<1>>)>>

\* C5: pruning is idempotent: pruning the pruned document again raises
\* nothing and leaves it as it is.
C5_PruneIdempotent ==
    Ran("prune") => PruneTree(Written) = [exc |-> "", tree |-> Written]

\* A document of two style nodes that the pruning changed, with adjacent
\* disallowed plugins.
C5_Witness ==
    /\ Ran("prune")
    /\ Len(parsed[1]) = 2
    /\ Written # parsed[1]
    /\ \E s \in 1..2 : \E i \in 1..(Len(parsed[1][s]) - 1) :
         /\ parsed[1][s][i].operation = "colorin"
         /\ parsed[1][s][i + 1].operation = "colorin"

\* C6: once the process has exited, however it ended, none of the temporary
\* files it wrote exists.
C6_TempsRemoved ==
    pc = "exited" => \A p \in temps : ~Exists(fs, p)

\* The run was interrupted during the fit, with all five temporary files
\* written, and has exited.
C6_Witness ==
    /\ pc = "exited"
    /\ Interrupted
    /\ raised[1].step = "fit"
    /\ Cardinality(temps) = 5

FitFailed == chart # <<>> /\ (chart[1].rc # 0 \/ ~chart[1].left)

HandledError ==
    /\ raised # <<>>
    /\ raised[1].exc = "PrintError"
    /\ Len(stderr) = 1
    /\ stderr[1].prog = Prog
    /\ exitcode = ExitError

\* C7: if darktable-chart exits non-zero or leaves no output file, the run
\* ends as a handled error: no pruning of the output path, one line prefixed
\* with the program name on standard error, exit code 1.
C7_FitFailureHandled ==
    (Ended /\ FitFailed /\ ~Interrupted) =>
        /\ ~Ran("prune")
        /\ parsed = <<>>
        /\ HandledError

Malformed(tree) ==
    \E s \in 1..Len(tree) : \E i \in 1..Len(tree[s]) :
        tree[s][i].operation = NoOperation \/ tree[s][i].num = NoNum

\* C8: if a plugin of the fitted document lacks its operation or its num,
\* the pruning fails with a handled error (one line, exit code 1), whether or
\* not the plugin's operation is allowed.
C8_MalformedStyleHandled ==
    (Ended /\ parsed # <<>> /\ Malformed(parsed[1]) /\ ~Interrupted) =>
        /\ Failed("prune")
        /\ HandledError

\* C10: no step of the run writes to, overwrites or deletes the input file.
C10_InputUntouched ==
    Exists(fs, args.file) /\ fs[args.file] = ClutImage

====
